---- MODULE Spec2Model ----
(***************************************************************************)
(* A model of etl.py: the Sparkify data-lake ETL.  One run creates a Spark *)
(* session, turns the song catalog into the songs and artists tables and a *)
(* session-scoped lookup view, then turns the activity log into the users, *)
(* time and songplays tables.  Data frames are bags of rows (records); a   *)
(* parquet output is the bag of rows it holds.                             *)
(***************************************************************************)
EXTENDS Bags, FiniteSets, Integers, Sequences, TLC

VARIABLES
    pc,         \* the statement of etl.py the run is about to execute
    error,      \* "none", or the exception that ended the run at pc
    entry,      \* the function the process was started on
    song_data,  \* the catalog records under input_data/song_data (a bag)
    log_data,   \* the activity records under input_data/log_data, as the
                \* scan partitions the engine reads them in
    engine,     \* what the deployment fixes: UDF result coercion, time zone
    views,      \* the session's temporary views: name -> table
    sink,       \* the five parquet outputs under output_data
    sink0       \* what the outputs held when the process started

vars == <<pc, error, entry, song_data, log_data, engine, views, sink, sink0>>

\* Most catalog records read, and most activity records read.
MaxSongs == 2
MaxEvents == 2

\* SQL NULL in a string column, and in an integer column.
NULL == "<null>"
NullInt == << >>
Int1(v) == <<v>>

----------------------------------------------------------------------------
\* Inputs

\* Epoch milliseconds, kept as whole seconds and the remaining milliseconds:
\* 946684800000 is beyond the 32-bit integers of TLC.
Millis(seconds, rest) == [s |-> seconds, ms |-> rest]

SongRecord(sid, aid, name) ==
    [song_id |-> sid, title |-> "T1", artist_id |-> aid, year |-> 2000,
     duration |-> 200, artist_name |-> name, artist_location |-> "NYC",
     artist_latitude |-> "40.7", artist_longitude |-> "-74.0"]

\* The catalog records a run may read: two songs of one artist under one
\* title and artist name, a song_id filed under a second artist_id, and an
\* artist_id filed with and without an artist name.
SongRecords ==
    {SongRecord("S1", "A1", "N1"), SongRecord("S2", "A1", "N1"),
     SongRecord("S1", "A2", "N1"), SongRecord("S2", "A2", NULL)}

LogRecord(page, user, ts, artist, song) ==
    [page |-> page, ts |-> ts, userId |-> user, firstName |-> "A",
     lastName |-> "B", gender |-> "F", level |-> "free", sessionId |-> 100,
     userAgent |-> "ua", location |-> "loc", artist |-> artist, song |-> song]

Play(artist, song) ==
    LogRecord("NextSong", "1", Millis(946684800, 0), artist, song)

\* The activity records a run may read: song plays with and without artist
\* and song names, and a page view of another user at another time that
\* names a catalog song.
LogRecords ==
    {Play("N1", "T1"), Play(NULL, "T1"), Play("N1", NULL),
     LogRecord("Home", "2", Millis(1541106106, 796), "N1", "T1")}

Range(s) == {s[i] : i \in DOMAIN s}

BagOfSeq(s) == [x \in Range(s) |-> Cardinality({i \in DOMAIN s : s[i] = x})]

SeqsOfLen(S, n) == [1..n -> S]

SeqsUpTo(S, n) == UNION {SeqsOfLen(S, k) : k \in 0..n}

\* Every catalog of at most MaxSongs records, repeated records included.
SongInputs == {BagOfSeq(s) : s \in SeqsUpTo(SongRecords, MaxSongs)}

\* Every way to read exactly n activity records as non-empty scan partitions.
RECURSIVE Layouts(_)
Layouts(n) ==
    IF n = 0 THEN {<< >>}
    ELSE UNION {{<<f>> \o rest : f \in SeqsOfLen(LogRecords, k),
                                 rest \in Layouts(n - k)} : k \in 1..n}

LogInputs == UNION {Layouts(n) : n \in 0..MaxEvents}

\* What the deployment fixes: whether the string UDF's datetime reaches the
\* engine as a timestamp or as text, and the local zone's offset from UTC.
UdfCoercions == {"string", "timestamp"}
UtcOffsets == {0, 0 - 8 * 3600}
Engines == [udf : UdfCoercions, utc_offset : UtcOffsets]

----------------------------------------------------------------------------
\* Data frame operations of the engine, as the code uses them

EmptyTable == EmptyBag

\* DataFrame.dropDuplicates(): one copy of every distinct whole row.
dropDuplicates(df) == SetToBag(BagToSet(df))

\* Variant: null-safe equality (<=>), under which NULL equals NULL.
SqlEqNullSafe(a, b) == a = b

\* Column == Column: SQL equality, never true when a side is NULL.
SqlEq(a, b) == a # NULL /\ b # NULL /\ a = b

\* Variant: mode('append').
AppendMode(old, new) == old (+) new

\* DataFrameWriter.mode('overwrite'): the output holds the new rows only.
Overwrite(old, new) == new

\* spark.sql('select * from <name>'): the view, or an AnalysisException
\* when the session has no table or view of that name.
AnalysisException == "AnalysisException"

\* Variant: a missing view read as an empty table.
SqlEmptyWhenMissing(vs, name) ==
    [raised |-> "none",
     table |-> IF name \in DOMAIN vs THEN vs[name] ELSE EmptyTable]

spark_sql(vs, name) ==
    IF name \in DOMAIN vs THEN [raised |-> "none", table |-> vs[name]]
    ELSE [raised |-> AnalysisException, table |-> EmptyTable]

----------------------------------------------------------------------------
\* Calendar functions of the engine (proleptic Gregorian, seconds since epoch)

DaysFromCivil(y, m, d) ==
    LET yy == IF m <= 2 THEN y - 1 ELSE y
        era == yy \div 400
        yoe == yy - era * 400
        mp == IF m > 2 THEN m - 3 ELSE m + 9
        doy == (153 * mp + 2) \div 5 + d - 1
        doe == yoe * 365 + yoe \div 4 - yoe \div 100 + doy
    IN  era * 146097 + doe - 719468

CivilFromDays(days) ==
    LET z == days + 719468
        era == z \div 146097
        doe == z - era * 146097
        yoe == (doe - doe \div 1460 + doe \div 36524 - doe \div 146096) \div 365
        doy == doe - (365 * yoe + yoe \div 4 - yoe \div 100)
        mp == (5 * doy + 2) \div 153
        d == doy - (153 * mp + 2) \div 5 + 1
        m == IF mp < 10 THEN mp + 3 ELSE mp - 9
        y == yoe + era * 400 + (IF m <= 2 THEN 1 ELSE 0)
    IN  [year |-> y, month |-> m, day |-> d]

\* ISO-8601 week of the year: the week of the year its Thursday falls in.
IsoWeek(days) ==
    LET wd == ((days + 3) % 7) + 1
        thu == days - wd + 4
        y == CivilFromDays(thu).year
    IN  (thu - DaysFromCivil(y, 1, 1)) \div 7 + 1

\* dt.fromtimestamp(x / 1000): the local wall-clock time of the instant.
\* The UDF declares no return type, so it is a string UDF: the engine either
\* hands the datetime on as a timestamp or turns the object into a string
\* that is no timestamp literal.
get_timestamp(x, eng) ==
    [kind |-> eng.udf, local_s |-> x.s + eng.utc_offset, micros |-> x.ms * 1000]

\* year, month, hour, dayofmonth, weekofyear, dayofweek (1 = Sunday) of a
\* start_time column: NULL when the value cannot be cast to a timestamp.
CalendarField(st, f) ==
    IF st.kind # "timestamp" THEN NullInt
    ELSE LET days == st.local_s \div 86400
             civil == CivilFromDays(days)
         IN  CASE f = "year" -> Int1(civil.year)
               [] f = "month" -> Int1(civil.month)
               [] f = "day" -> Int1(civil.day)
               [] f = "hour" -> Int1((st.local_s % 86400) \div 3600)
               [] f = "week" -> Int1(IsoWeek(days))
               [] f = "weekday" -> Int1(((days + 4) % 7) + 1)

----------------------------------------------------------------------------
\* process_song_data

SongCols(r) ==
    [song_id |-> r.song_id, title |-> r.title, artist_id |-> r.artist_id,
     year |-> r.year, duration |-> r.duration]

\* Variant: dropDuplicates(['title']), one row kept for every title.
SongsDedupByTitle(df) ==
    LET t == BagToSet(BagOfAll(SongCols, df))
    IN  SetToBag({CHOOSE r \in t : r.title = x : x \in {r.title : r \in t}})

\* Lines 47-51.
songs_table(df) == dropDuplicates(BagOfAll(SongCols, df))

MappingCols(r) ==
    [song_id |-> r.song_id, title |-> r.title, artist_id |-> r.artist_id,
     artist_name |-> r.artist_name]

sng_art_mapping(df) == dropDuplicates(BagOfAll(MappingCols, df))

ArtistCols(r) ==
    [artist_id |-> r.artist_id, name |-> r.artist_name,
     location |-> r.artist_location, latitude |-> r.artist_latitude,
     longitude |-> r.artist_longitude]

artists_table(df) == dropDuplicates(BagOfAll(ArtistCols, df))

----------------------------------------------------------------------------
\* process_log_data

\* The withColumnRenamed chain; the records carry no songId, so that rename
\* changes nothing.
Renamed(r) ==
    [page |-> r.page, ts |-> r.ts, user_id |-> r.userId,
     first_name |-> r.firstName, last_name |-> r.lastName,
     gender |-> r.gender, level |-> r.level, session_id |-> r.sessionId,
     user_agent |-> r.userAgent, location |-> r.location,
     artist |-> r.artist, song |-> r.song]

\* Variant: no filter on the page.
KeepAll(r) == TRUE

\* Line 100: df.page == 'NextSong'.
IsNextSong(r) == r.page = "NextSong"

\* df after lines 89-100, partition by partition, in scan order.
FilteredPartitions(log) ==
    [p \in DOMAIN log |->
        SelectSeq([i \in DOMAIN log[p] |-> Renamed(log[p][i])], IsNextSong)]

\* df after lines 116-121.
Enriched(r, eng) ==
    LET st == get_timestamp(r.ts, eng)
    IN  r @@ [start_time |-> st, year |-> CalendarField(st, "year"),
              month |-> CalendarField(st, "month")]

\* monotonically_increasing_id(): the partition index in the upper 31 bits
\* and the row's position within its partition in the lower 33 bits of a
\* 64-bit integer, here kept as the two parts.
monotonically_increasing_id(log, p, i) == [partition |-> p - 1, row |-> i - 1]

\* The positions <<partition, row>> of the rows of df.
Positions(parts) == UNION {{<<p, i>> : i \in DOMAIN parts[p]} : p \in DOMAIN parts}

\* The bag of the values of a function.
BagOfValues(f) ==
    [r \in {f[x] : x \in DOMAIN f} |-> Cardinality({x \in DOMAIN f : f[x] = r})]

\* The rows of df after lines 116-121, as a bag.
DfRows(log, eng) ==
    LET parts == FilteredPartitions(log)
    IN  BagOfValues([x \in Positions(parts) |-> Enriched(parts[x[1]][x[2]], eng)])

\* df.withColumn('songplay_id', monotonically_increasing_id()), as a bag.
DfRowsWithId(log, eng) ==
    LET parts == FilteredPartitions(log)
    IN  BagOfValues([x \in Positions(parts) |->
            Enriched(parts[x[1]][x[2]], eng) @@
                [songplay_id |-> monotonically_increasing_id(log, x[1], x[2])]])

UserCols(r) ==
    [user_id |-> r.user_id, first_name |-> r.first_name,
     last_name |-> r.last_name, gender |-> r.gender, level |-> r.level]

users_table(log, eng) == dropDuplicates(BagOfAll(UserCols, DfRows(log, eng)))

TimeCols(r) == [start_time |-> r.start_time, year |-> r.year, month |-> r.month]

TimeFields(r) ==
    r @@ [hour |-> CalendarField(r.start_time, "hour"),
          day |-> CalendarField(r.start_time, "day"),
          week |-> CalendarField(r.start_time, "week"),
          weekday |-> CalendarField(r.start_time, "weekday")]

time_table(log, eng) ==
    BagOfAll(TimeFields, dropDuplicates(BagOfAll(TimeCols, DfRows(log, eng))))

\* Variant: the join condition without the song title.
JoinOnArtistOnly(l, r) == SqlEq(l.artist, r.artist_name)

\* Line 149.
JoinOn(l, r) == SqlEq(l.artist, r.artist_name) /\ SqlEq(l.song, r.title)

\* Lines 147-151, DataFrame.join(..., how = 'inner'): every pair of a left
\* and a right row the condition holds for, as one row with the columns of
\* both.
JoinInner(left, right) ==
    LET pairs == {p \in BagToSet(left) \X BagToSet(right) : JoinOn(p[1], p[2])}
    IN  [row \in {p[1] @@ p[2] : p \in pairs} |->
            LET p == CHOOSE q \in pairs : q[1] @@ q[2] = row
            IN  CopiesIn(p[1], left) * CopiesIn(p[2], right)]

SongplayCols(r) ==
    [songplay_id |-> r.songplay_id, start_time |-> r.start_time,
     user_id |-> r.user_id, level |-> r.level, song_id |-> r.song_id,
     artist_id |-> r.artist_id, session_id |-> r.session_id,
     location |-> r.location, user_agent |-> r.user_agent,
     year |-> r.year, month |-> r.month]

songplays(log, eng, songs_art) ==
    BagOfAll(SongplayCols, JoinInner(DfRowsWithId(log, eng), songs_art))

----------------------------------------------------------------------------
\* The run

Outputs == {"songs", "artists", "users", "time", "songplays"}

EmptySink == [o \in Outputs |-> EmptyTable]

\* What a complete run writes to output o for a catalog and a log.
RunOutput(o, songs, log, eng) ==
    CASE o = "songs" -> songs_table(songs)
      [] o = "artists" -> artists_table(songs)
      [] o = "users" -> users_table(log, eng)
      [] o = "time" -> time_table(log, eng)
      [] o = "songplays" -> songplays(log, eng, sng_art_mapping(songs))

\* The outputs an earlier run left, on a catalog and a log of its own.
PriorSink ==
    [o \in Outputs |->
        RunOutput(o, SetToBag({SongRecord("S0", "A0", "N0")}),
                  << <<LogRecord("NextSong", "0", Millis(946684800, 0), "N0", "T1")>> >>,
                  [udf |-> "timestamp", utc_offset |-> 0])]

PriorSinks == {EmptySink, PriorSink}

\* Variant: the two calls of main swapped.
LogDataFirst == <<"process_log_data", "process_song_data">>

\* main calls the two transformations in this order (lines 176-177).
MainCalls == <<"process_song_data", "process_log_data">>

Calls(e) == IF e = "main" THEN MainCalls ELSE <<e>>

FirstStatement(f) ==
    IF f = "process_song_data" THEN "song_read" ELSE "log_read"

\* Where control goes when the i-th call of the entry function is due.
CallOrDone(e, i) ==
    IF i <= Len(Calls(e)) THEN FirstStatement(Calls(e)[i]) ELSE "done"

\* Where control goes when function f returns.
AfterReturn(e, f) ==
    CallOrDone(e, (CHOOSE i \in DOMAIN Calls(e) : Calls(e)[i] = f) + 1)

\* Variant: the lookup view queried before the users and time tables are
\* written.
LoadMappingFirst ==
    <<"log_read", "load_mapping", "users_write", "time_write", "songplays_write">>

\* The statements of process_log_data, in program order.
LogStatements ==
    <<"log_read", "users_write", "time_write", "load_mapping", "songplays_write">>

\* The statements of process_song_data, in program order.
SongStatements ==
    <<"song_read", "songs_write", "register_view", "artists_write">>

\* The statement after s within function f, or where f returns to.
Following(e, f, stmts, s) ==
    LET i == CHOOSE j \in DOMAIN stmts : stmts[j] = s
    IN  IF i < Len(stmts) THEN stmts[i + 1] ELSE AfterReturn(e, f)

AfterSong(e, s) == Following(e, "process_song_data", SongStatements, s)
AfterLog(e, s) == Following(e, "process_log_data", LogStatements, s)

Running(s) == pc = s /\ error = "none"

Init ==
    /\ pc = "start"
    /\ error = "none"
    /\ entry \in {"main", "process_log_data"}
    /\ song_data = EmptyBag
    /\ log_data = << >>
    /\ engine \in Engines
    /\ views = << >>
    /\ sink0 \in PriorSinks
    /\ sink = sink0

\* Lines 26-33 and 168: the session is created, with no temporary view.
create_spark_session ==
    /\ Running("start")
    /\ pc' = CallOrDone(entry, 1)
    /\ UNCHANGED <<error, entry, song_data, log_data, engine, views, sink, sink0>>

\* A write in mode overwrite: the output holds the new table, or the engine
\* raises and the output is left as it was or already deleted.
Write(out, table, next) ==
    \/ /\ sink' = [sink EXCEPT ![out] = Overwrite(@, table)]
       /\ pc' = next
       /\ error' = error
    \/ /\ \E left \in {sink[out], EmptyTable} : sink' = [sink EXCEPT ![out] = left]
       /\ pc' = pc
       /\ error' = "WriteError"

\* Lines 44-51: the catalog is read and its schema inferred; the selects
\* are analysed at once and fail on a catalog without records, which has
\* none of the columns.
song_read ==
    /\ Running("song_read")
    /\ \E data \in SongInputs :
          /\ song_data' = data
          /\ IF data = EmptyBag
                THEN pc' = pc /\ error' = AnalysisException
                ELSE pc' = AfterSong(entry, pc) /\ error' = error
    /\ UNCHANGED <<entry, log_data, engine, views, sink, sink0>>

\* Line 56.  partitionBy decides the directory a row is filed under, not
\* the rows the output holds.
songs_write ==
    /\ Running("songs_write")
    /\ Write("songs", songs_table(song_data), AfterSong(entry, pc))
    /\ UNCHANGED <<entry, song_data, log_data, engine, views, sink0>>

\* Line 62: createOrReplaceTempView.
register_view ==
    /\ Running("register_view")
    /\ views' = [n \in DOMAIN views \cup {"sng_art_mapping"} |->
                    IF n = "sng_art_mapping" THEN sng_art_mapping(song_data)
                    ELSE views[n]]
    /\ pc' = AfterSong(entry, pc)
    /\ UNCHANGED <<error, entry, song_data, log_data, engine, sink, sink0>>

\* Line 78.
artists_write ==
    /\ Running("artists_write")
    /\ Write("artists", artists_table(song_data), AfterSong(entry, pc))
    /\ UNCHANGED <<entry, song_data, log_data, engine, views, sink0>>

\* Lines 89-100: the log is read and its schema inferred; df.page fails on
\* a log without records.
log_read ==
    /\ Running("log_read")
    /\ \E data \in LogInputs :
          /\ log_data' = data
          /\ IF data = << >>
                THEN pc' = pc /\ error' = "AttributeError"
                ELSE pc' = AfterLog(entry, pc) /\ error' = error
    /\ UNCHANGED <<entry, song_data, engine, views, sink, sink0>>

\* Line 110.
users_write ==
    /\ Running("users_write")
    /\ Write("users", users_table(log_data, engine), AfterLog(entry, pc))
    /\ UNCHANGED <<entry, song_data, log_data, engine, views, sink0>>

\* Line 137.
time_write ==
    /\ Running("time_write")
    /\ Write("time", time_table(log_data, engine), AfterLog(entry, pc))
    /\ UNCHANGED <<entry, song_data, log_data, engine, views, sink0>>

\* Line 141: the query is analysed at once.
load_mapping ==
    /\ Running("load_mapping")
    /\ LET songs_art == spark_sql(views, "sng_art_mapping")
       IN  IF songs_art.raised # "none"
             THEN pc' = pc /\ error' = songs_art.raised
             ELSE pc' = AfterLog(entry, pc) /\ error' = error
    /\ UNCHANGED <<entry, song_data, log_data, engine, views, sink, sink0>>

\* Lines 144-160: the join runs when the table is written.
songplays_write ==
    /\ Running("songplays_write")
    /\ Write("songplays",
             songplays(log_data, engine, spark_sql(views, "sng_art_mapping").table),
             AfterLog(entry, pc))
    /\ UNCHANGED <<entry, song_data, log_data, engine, views, sink0>>

Next ==
    \/ create_spark_session
    \/ song_read
    \/ songs_write
    \/ register_view
    \/ artists_write
    \/ log_read
    \/ users_write
    \/ time_write
    \/ load_mapping
    \/ songplays_write

Spec == Init /\ [][Next]_vars

----------------------------------------------------------------------------
\* Properties

Rows(t) == BagToSet(t)

\* How many rows of table t are among the rows S, copies counted.
Count(t, S) == BagCardinality([r \in S \cap Rows(t) |-> CopiesIn(r, t)])

\* The filtered and enriched activity rows of this run, each with the
\* songplay_id the run gives it.
Events == Rows(DfRowsWithId(log_data, engine))

Registered == "sng_art_mapping" \in DOMAIN views

Lookup == views["sng_art_mapping"]

\* The statements of main's run that come after each output's write.
AfterSongsWrite ==
    {"register_view", "artists_write", "log_read", "users_write", "time_write",
     "load_mapping", "songplays_write", "done"}
AfterArtistsWrite == AfterSongsWrite \ {"register_view", "artists_write"}
AfterUsersWrite == {"time_write", "load_mapping", "songplays_write", "done"}
AfterTimeWrite == AfterUsersWrite \ {"time_write"}

MainDone == entry = "main" /\ pc = "done"

\* Two names are equal as the join compares them: both present and the same.
SameName(a, b) == a # NULL /\ b # NULL /\ a = b

Matches(e) ==
    {m \in Rows(Lookup) : SameName(e.artist, m.artist_name) /\ SameName(e.song, m.title)}

UniqueCatalogMatches ==
    \A m1, m2 \in Rows(Lookup) :
        (m1.artist_name = m2.artist_name /\ m1.title = m2.title) => m1 = m2

DerivedFrom(e) ==
    Count(sink.songplays,
          {r \in Rows(sink.songplays) : r.songplay_id = e.songplay_id})

\* C1: once the songplays output is written, a filtered activity row whose
\* (artist, song) equals no (artist_name, title) of the registered lookup
\* table has no songplay row, and one that has a match has exactly one
\* songplay row when the lookup table holds at most one row per
\* (artist_name, title).
C1_JoinInnerSemantics ==
    MainDone =>
        \A e \in Events :
            /\ Matches(e) = {} => DerivedFrom(e) = 0
            /\ (Matches(e) # {} /\ UniqueCatalogMatches) => DerivedFrom(e) = 1

C1_Witness ==
    /\ MainDone
    /\ UniqueCatalogMatches
    /\ \E e \in Events : Matches(e) # {} /\ DerivedFrom(e) = 1
    /\ \E e \in Events : Matches(e) = {} /\ DerivedFrom(e) = 0

\* C2: no two rows of the songplays output carry the same songplay_id.
C2_SongplayIdIsKey ==
    MainDone =>
        \A r \in Rows(sink.songplays) :
            Count(sink.songplays,
                  {q \in Rows(sink.songplays) : q.songplay_id = r.songplay_id}) = 1

\* C3: no two rows of the songs output share a song_id and no two rows of
\* the artists output share an artist_id.
C3_DimensionKeysUnique ==
    /\ (entry = "main" /\ pc \in AfterSongsWrite) =>
          \A r \in Rows(sink.songs) :
              Count(sink.songs,
                    {q \in Rows(sink.songs) : q.song_id = r.song_id}) = 1
    /\ (entry = "main" /\ pc \in AfterArtistsWrite) =>
          \A r \in Rows(sink.artists) :
              Count(sink.artists,
                    {q \in Rows(sink.artists) : q.artist_id = r.artist_id}) = 1

\* C4: while the session holds no view sng_art_mapping, control never gets
\* past the query of line 141 and the songplays output is not written; a
\* run that reaches the query without the view ends there in the engine's
\* AnalysisException.
C4_MissingLookupFails ==
    ~Registered =>
        /\ pc \notin {"songplays_write", "done"}
        /\ sink.songplays = sink0.songplays
        /\ (pc = "load_mapping" /\ error # "none") => error = AnalysisException

C4_Witness ==
    /\ entry = "process_log_data"
    /\ ~Registered
    /\ pc = "load_mapping"
    /\ error = AnalysisException
    /\ Events # {}

\* The log with every record whose page is not NextSong removed, the other
\* records read as before.
OnlyNextSong(log) ==
    [p \in DOMAIN log |-> SelectSeq(log[p], LAMBDA r : r.page = "NextSong")]

NextSongRecords ==
    {r \in UNION {Range(log_data[p]) : p \in DOMAIN log_data} : r.page = "NextSong"}

C6_NoOrphanFact ==
    MainDone =>
        \A f \in Rows(sink.songplays) :
            /\ \E e \in Events, c \in Rows(song_data) :
                  /\ e.songplay_id = f.songplay_id
                  /\ c.title = e.song /\ c.artist_name = e.artist
                  /\ c.song_id = f.song_id /\ c.artist_id = f.artist_id
            /\ \E s \in Rows(sink.songs) : s.song_id = f.song_id
            /\ \E a \in Rows(sink.artists) : a.artist_id = f.artist_id

C6_Witness ==
    /\ MainDone
    /\ \E f, g \in Rows(sink.songplays) : f.song_id # g.song_id

\* C7: when a run of main completes, each of the five outputs holds exactly
\* the rows of this run's tables, whatever it held before; no row of the
\* earlier contents is left that this run does not produce.
C7_FullOverwrite ==
    MainDone =>
        \A o \in Outputs :
            LET table == RunOutput(o, song_data, log_data, engine)
            IN  /\ sink[o] = table
                /\ \A r \in Rows(sink0[o]) \ Rows(table) : r \notin Rows(sink[o])

C7_Witness ==
    /\ MainDone
    /\ \A o \in Outputs : sink0[o] # EmptyTable /\ sink[o] # EmptyTable

\* C8: in a run of main, whenever control is in process_log_data the catalog
\* transformation has completed: the songs and artists outputs are written
\* and the view holds the deduplicated (song_id, title, artist_id,
\* artist_name) rows of this run's catalog; the query of line 141 never
\* fails for a missing view.
C8_CatalogBeforeActivity ==
    (entry = "main" /\ pc \in {"log_read", "users_write", "time_write",
                               "load_mapping", "songplays_write", "done"}) =>
        /\ song_data # EmptyBag
        /\ Registered
        /\ Rows(Lookup) = {MappingCols(c) : c \in Rows(song_data)}
        /\ \A m \in Rows(Lookup) : CopiesIn(m, Lookup) = 1
        /\ Rows(sink.songs) = {SongCols(c) : c \in Rows(song_data)}
        /\ Rows(sink.artists) = {ArtistCols(c) : c \in Rows(song_data)}
        /\ error # AnalysisException

C8_Witness ==
    /\ entry = "main"
    /\ pc = "songplays_write"
    /\ error = "none"
    /\ Rows(Lookup) # {}

\* C9: a filtered activity row whose artist or song is NULL has no songplay
\* row, whatever the lookup table holds.
C9_NullNeverMatches ==
    MainDone =>
        \A e \in Events :
            (e.artist = NULL \/ e.song = NULL) => DerivedFrom(e) = 0

C9_Witness ==
    /\ MainDone
    /\ \E e \in Events, m \in Rows(Lookup) :
          e.artist = NULL /\ m.artist_name = NULL /\ e.song = m.title
    /\ \E e \in Events : e.song = NULL

\* The outputs the run has written before it executes statement s, and the
\* output statement s writes, in the order songs, artists, users, time,
\* songplays.
WrittenBefore(s) ==
    CASE s \in {"start", "song_read", "songs_write"} -> {}
      [] s \in {"register_view", "artists_write"} -> {"songs"}
      [] s \in {"log_read", "users_write"} -> {"songs", "artists"}
      [] s = "time_write" -> {"songs", "artists", "users"}
      [] s \in {"load_mapping", "songplays_write"} ->
            {"songs", "artists", "users", "time"}
      [] s = "done" -> Outputs

WrittenAt(s) ==
    CASE s = "songs_write" -> {"songs"}
      [] s = "artists_write" -> {"artists"}
      [] s = "users_write" -> {"users"}
      [] s = "time_write" -> {"time"}
      [] s = "songplays_write" -> {"songplays"}
      [] OTHER -> {}

\* The outputs of the functions this process runs.
InScope == IF entry = "main" THEN Outputs ELSE {"users", "time", "songplays"}

\* C10: when a run aborts at a statement, every output written before that
\* statement holds this run's table and every output due after it is as it
\* was before the run; a run that fails on the missing lookup table has
\* written users and time and left songplays alone.
C10_NoRollback ==
    error # "none" =>
        /\ \A o \in WrittenBefore(pc) \cap InScope :
              sink[o] = RunOutput(o, song_data, log_data, engine)
        /\ \A o \in Outputs \ ((WrittenBefore(pc) \cap InScope) \cup WrittenAt(pc)) :
              sink[o] = sink0[o]
        /\ (pc = "load_mapping" /\ error = AnalysisException) =>
              /\ sink.users = users_table(log_data, engine)
              /\ sink.time = time_table(log_data, engine)
              /\ sink.songplays = sink0.songplays

C10_Witness ==
    /\ pc = "load_mapping"
    /\ error = AnalysisException
    /\ sink0 = PriorSink
    /\ sink.users # sink0.users
    /\ sink.time # sink0.time
    /\ sink.songplays = PriorSink.songplays

====
